---- MODULE Spec2Model ----
(***************************************************************************)
(* A model of the batch orchestration of sarvamcallanalytics.py:           *)
(* process_batch_job together with the job API wrappers (initialize_job,   *)
(* start_job, check_job_status) and the storage client (SarvamClient) it   *)
(* drives.  The remote API and the remote store are the environment: each  *)
(* call is one step that sends the request and one step that receives a    *)
(* response chosen by the environment.                                     *)
(***************************************************************************)
EXTENDS Naturals, Integers, Sequences, FiniteSets, TLC

(* ------------------------------ bounds --------------------------------- *)

\* the largest number of files handed to one run
MaxFiles == 2
\* the largest number of status checks the environment answers in one run
MaxPolls == 3
\* the largest number of entries of a listing of the output location
MaxList == 2

(* ------------------------- program constants --------------------------- *)

\* the status code initialize_job accepts
HTTP_ACCEPTED == 202
\* the status code start_job and check_job_status accept
HTTP_OK == 200
\* the polling interval, in seconds
POLL_INTERVAL == 10

(* ------------------------------ values --------------------------------- *)

\* A name is a sequence of characters.
JSON_SUFFIX == <<".", "j", "s", "o", "n">>

\* str.endswith(suffix)
EndsWith(s, suffix) ==
    /\ Len(s) >= Len(suffix)
    /\ SubSeq(s, Len(s) - Len(suffix) + 1, Len(s)) = suffix

(* ------------------------------- texts --------------------------------- *)

\* A text is a sequence of characters.  s.find(c), from position from: the
\* first position of c, or 0
Find(s, c, from) ==
    IF \E i \in from..Len(s) : s[i] = c
    THEN CHOOSE i \in from..Len(s) :
             s[i] = c /\ \A j \in from..(i - 1) : s[j] # c
    ELSE 0

\* s.strip(c)
Strip(s, c) ==
    LET keep == { i \in 1..Len(s) : s[i] # c }
    IN  IF keep = {}
        THEN <<>>
        ELSE SubSeq(s,
                    CHOOSE i \in keep : \A j \in keep : i <= j,
                    CHOOSE i \in keep : \A j \in keep : j <= i)

\* s.split(c)
RECURSIVE Split(_, _)
Split(s, c) ==
    LET i == Find(s, c, 1)
    IN  IF i = 0
        THEN << s >>
        ELSE << SubSeq(s, 1, i - 1) >> \o Split(SubSeq(s, i + 1, Len(s)), c)

\* c.join(parts)
RECURSIVE Join(_, _)
Join(parts, c) ==
    IF parts = <<>> THEN <<>>
    ELSE IF Len(parts) = 1 THEN parts[1]
    ELSE parts[1] \o << c >> \o Join(Tail(parts), c)

\* s.replace(old, new), for a non-empty old
RECURSIVE Replace(_, _, _)
Replace(s, old, new) ==
    IF Len(s) < Len(old) THEN s
    ELSE IF SubSeq(s, 1, Len(old)) = old
    THEN new \o Replace(SubSeq(s, Len(old) + 1, Len(s)), old, new)
    ELSE << s[1] >> \o Replace(Tail(s), old, new)

\* the characters of a URL scheme (the lower-case letters and digits of them)
SchemeChars ==
    { "a", "b", "c", "d", "e", "f", "g", "h", "i", "j", "k", "l", "m", "n",
      "o", "p", "q", "r", "s", "t", "u", "v", "w", "x", "y", "z",
      "0", "1", "2", "3", "4", "5", "6", "7", "8", "9", "+", "-", "." }

Letters == SchemeChars \ { "0", "1", "2", "3", "4", "5", "6", "7", "8", "9",
                           "+", "-", "." }

\* the smallest of the positive numbers of a set, or otherwise
FirstOf(positions, otherwise) ==
    LET found == { i \in positions : i > 0 }
    IN  IF found = {} THEN otherwise
        ELSE CHOOSE i \in found : \A j \in found : i <= j

\* the scheme of a URL and what follows its colon: the text before the
\* first ':' is a scheme when it starts with a letter and holds scheme
\* characters only
SplitScheme(url) ==
    LET colon == Find(url, ":", 1)
    IN  IF /\ colon > 1
           /\ url[1] \in Letters
           /\ \A i \in 1..(colon - 1) : url[i] \in SchemeChars
        THEN [scheme |-> SubSeq(url, 1, colon - 1),
              rest |-> SubSeq(url, colon + 1, Len(url))]
        ELSE [scheme |-> <<>>, rest |-> url]

\* the network location after '//', up to the first '/', '?' or '#'
SplitNetloc(rest) ==
    IF Len(rest) >= 2 /\ SubSeq(rest, 1, 2) = << "/", "/" >>
    THEN LET delim == FirstOf({ Find(rest, "/", 3), Find(rest, "?", 3),
                                Find(rest, "#", 3) }, Len(rest) + 1)
         IN  [netloc |-> SubSeq(rest, 3, delim - 1),
              rest |-> SubSeq(rest, delim, Len(rest))]
    ELSE [netloc |-> <<>>, rest |-> rest]

\* the parts of a text before and after the first c in it
SplitAt(s, c) ==
    LET i == Find(s, c, 1)
    IN  IF i > 0
        THEN [before |-> SubSeq(s, 1, i - 1),
              after |-> SubSeq(s, i + 1, Len(s))]
        ELSE [before |-> s, after |-> <<>>]

\* urllib.parse.urlparse(url), for a URL of lower-case letters with no
\* parameters (';'): the scheme before the first ':', the network location
\* after '//', the fragment after the first '#', the query after the first
\* '?', and the path that is left
urlparse(url) ==
    LET located == SplitNetloc(SplitScheme(url).rest)
        queried == SplitAt(SplitAt(located.rest, "#").before, "?")
    IN  [scheme |-> SplitScheme(url).scheme,
         netloc |-> located.netloc,
         path |-> queried.before,
         query |-> queried.after,
         fragment |-> SplitAt(located.rest, "#").after]

BLOB_TIER == << ".", "b", "l", "o", "b", "." >>

DFS_TIER == << ".", "d", "f", "s", "." >>

\* SarvamClient._extract_url_components(url)
_extract_url_components(url) ==
    LET parsed_url == urlparse(url)
        account_url ==
            Replace(parsed_url.scheme \o << ":", "/", "/" >>
                        \o parsed_url.netloc,
                    BLOB_TIER, DFS_TIER)
        path_components == Split(Strip(parsed_url.path, "/"), "/")
    IN  [account_url |-> account_url,
         file_system_name |-> path_components[1],
         directory_name |-> Join(Tail(path_components), "/"),
         sas_token |-> parsed_url.query]

\* A Python value that is None or a dict: a dict is its set of <<key, value>>
\* items.
PyNone == [none |-> TRUE, items |-> {}]

Dict(items) == [none |-> FALSE, items |-> items]

\* bool(v): None and the empty dict are falsy
Truthy(v) == ~v.none /\ v.items # {}

\* key in d
HasKey(d, k) == \E it \in d.items : it[1] = k

\* d[key], for a key of d
Get(d, k) == (CHOOSE it \in d.items : it[1] = k)[2]

\* An HTTP response: its status code, whether its text is JSON, and the
\* items of the JSON object it holds.
Response(code, is_json, items) ==
    [status_code |-> code, is_json |-> is_json, items |-> items]

(* ---------------------- the environment's answers ---------------------- *)

\* https://a.blob.x/fs/in?sas
INPUT_URL == 
    <<"h", "t", "t", "p", "s", ":", "/", "/", "a", ".", "b", "l", "o", "b", ".", "x", "/", "f", "s", "/", "i", "n", "?", "s", "a", "s">>

\* https://a.blob.x/fs/out/r?sas
OUTPUT_URL == 
    <<"h", "t", "t", "p", "s", ":", "/", "/", "a", ".", "b", "l", "o", "b", ".", "x", "/", "f", "s", "/", "o", "u", "t", "/", "r", "?", "s", "a", "s">>

FullInitBody ==
    { <<"job_id", "J1">>,
      <<"input_storage_path", INPUT_URL>>,
      <<"output_storage_path", OUTPUT_URL>> }

InitResponses ==
    { Response(HTTP_ACCEPTED, TRUE, FullInitBody),
      Response(HTTP_ACCEPTED, TRUE, {}),
      Response(HTTP_ACCEPTED, TRUE, { <<"job_id", "J1">> }),
      Response(HTTP_ACCEPTED, FALSE, {}),
      Response(HTTP_OK, TRUE, FullInitBody),
      Response(500, FALSE, {}) }

StartResponses ==
    { Response(HTTP_OK, TRUE, { <<"job_id", "J1">> }),
      Response(HTTP_OK, TRUE, {}),
      Response(HTTP_OK, FALSE, {}),
      Response(HTTP_ACCEPTED, TRUE, { <<"job_id", "J1">> }),
      Response(500, FALSE, {}) }

JobStates == {"Running", "Completed", "Failed"}

StatusResponses ==
    { Response(HTTP_OK, TRUE, { <<"job_state", s>> }) : s \in JobStates }
    \cup
    { Response(HTTP_OK, TRUE, {}),
      Response(HTTP_OK, TRUE, { <<"message", "no state">> }),
      Response(HTTP_OK, FALSE, {}),
      Response(404, TRUE, { <<"job_state", "Completed">> }),
      Response(500, FALSE, {}) }

\* the names of the files a caller uploads
FileNames == { <<"a", ".", "w", "a", "v">>, <<"b", ".", "m", "p", "3">> }

\* the names the output location may list
ListNames ==
    { <<"a">> \o JSON_SUFFIX,
      <<"b">> \o JSON_SUFFIX,
      <<"a", ".", "j", "s", "o", "n", "l">>,
      <<"j", "s", "o", "n">> }

SeqsUpTo(S, lo, hi) == UNION { [1..n -> S] : n \in lo..hi }

(* ------------------------------ json.loads ------------------------------ *)

\* json.loads(text), line 183, for a text of printable characters, tabs and
\* line ends whose strings have no \b and no \u escape.  A JSON object is a
\* Dict whose keys are texts, an array a sequence, a string a text, an
\* integer an integer, null is PyNone, true and false are the booleans, and
\* a number with a fraction or an exponent is the record of its literal.

WhiteSpace == { " ", "\t", "\n", "\r" }

Digits == { "0", "1", "2", "3", "4", "5", "6", "7", "8", "9" }

DigitValue(c) ==
    CASE c = "0" -> 0 [] c = "1" -> 1 [] c = "2" -> 2 [] c = "3" -> 3
      [] c = "4" -> 4 [] c = "5" -> 5 [] c = "6" -> 6 [] c = "7" -> 7
      [] c = "8" -> 8 [] c = "9" -> 9

\* the characters an escape stands for
Escapes == { "\"", "\\", "/", "f", "n", "r", "t" }

Unescape(c) ==
    CASE c = "f" -> "\f" [] c = "n" -> "\n" [] c = "r" -> "\r"
      [] c = "t" -> "\t" [] OTHER -> c

\* the character at a position of a text, or the empty text past its end
At(s, i) == IF i \in 1..Len(s) THEN s[i] ELSE ""

\* the text has the word at the position
HasWord(s, i, word) ==
    /\ i + Len(word) - 1 <= Len(s)
    /\ SubSeq(s, i, i + Len(word) - 1) = word

\* the first position from i on that holds no white space
RECURSIVE SkipSpace(_, _)
SkipSpace(s, i) ==
    IF At(s, i) \in WhiteSpace THEN SkipSpace(s, i + 1) ELSE i

\* the result of scanning a value at a position of a text: whether there is
\* one, the value, and the position after it
NoParse == [ok |-> FALSE, value |-> PyNone, next |-> 0]

Parsed(value, next) == [ok |-> TRUE, value |-> value, next |-> next]

\* the string whose opening quote has been read: strict mode refuses the
\* control characters
RECURSIVE ScanString(_, _, _)
ScanString(s, i, acc) ==
    IF i > Len(s) THEN NoParse
    ELSE IF s[i] = "\"" THEN Parsed(acc, i + 1)
    ELSE IF s[i] = "\\"
    THEN IF At(s, i + 1) \in Escapes
         THEN ScanString(s, i + 2, Append(acc, Unescape(s[i + 1])))
         ELSE NoParse
    ELSE IF s[i] \in { "\t", "\n", "\r", "\f" } THEN NoParse
    ELSE ScanString(s, i + 1, Append(acc, s[i]))

\* the number of digits from a position on
RECURSIVE LeadingDigits(_, _)
LeadingDigits(s, i) ==
    IF At(s, i) \in Digits THEN 1 + LeadingDigits(s, i + 1) ELSE 0

\* the number the n digits from a position on stand for
RECURSIVE IntOf(_, _, _)
IntOf(s, i, n) ==
    IF n = 0 THEN 0
    ELSE 10 * IntOf(s, i, n - 1) + DigitValue(s[i + n - 1])

\* the lengths of the parts of a number: (0|[1-9]\d*)(\.\d+)?([eE][-+]?\d+)?
IntLength(s, i) == IF At(s, i) = "0" THEN 1 ELSE LeadingDigits(s, i)

FracLength(s, i) ==
    IF At(s, i) = "." /\ At(s, i + 1) \in Digits
    THEN 1 + LeadingDigits(s, i + 1)
    ELSE 0

ExpLength(s, i) ==
    IF At(s, i) \in { "e", "E" }
    THEN LET mark == IF At(s, i + 1) \in { "+", "-" } THEN 2 ELSE 1
         IN  IF LeadingDigits(s, i + mark) = 0 THEN 0
             ELSE mark + LeadingDigits(s, i + mark)
    ELSE 0

\* the number at a position, its digits starting at the position after the
\* sign
ScanDigits(s, i, digits) ==
    LET whole == IntLength(s, digits)
        frac == FracLength(s, digits + whole)
    IN  IF whole = 0 THEN NoParse
        ELSE IF frac + ExpLength(s, digits + whole + frac) = 0
        THEN Parsed(IF digits > i
                    THEN 0 - IntOf(s, digits, whole)
                    ELSE IntOf(s, digits, whole),
                    digits + whole)
        ELSE Parsed([float |->
                         SubSeq(s, i, digits + whole + frac
                                      + ExpLength(s, digits + whole + frac)
                                      - 1)],
                    digits + whole + frac
                        + ExpLength(s, digits + whole + frac))

ScanNumber(s, i) ==
    IF At(s, i) = "-" THEN ScanDigits(s, i, i + 1) ELSE ScanDigits(s, i, i)

NULL == << "n", "u", "l", "l" >>

TRUE_WORD == << "t", "r", "u", "e" >>

FALSE_WORD == << "f", "a", "l", "s", "e" >>

NAN == << "N", "a", "N" >>

INFINITY == << "I", "n", "f", "i", "n", "i", "t", "y" >>

\* d[key] = value
Put(items, key, value) ==
    { it \in items : it[1] # key } \cup { << key, value >> }

RECURSIVE ScanValue(_, _)
RECURSIVE ScanItems(_, _, _, _)
RECURSIVE ScanItemEnd(_, _, _)
RECURSIVE ScanMembers(_, _, _, _)
RECURSIVE ScanMemberValue(_, _, _, _)
RECURSIVE ScanMemberEnd(_, _, _)

\* the value at a position that holds no white space
ScanValue(s, i) ==
    IF i > Len(s) THEN NoParse
    ELSE IF s[i] = "\"" THEN ScanString(s, i + 1, <<>>)
    ELSE IF s[i] = "{" THEN ScanMembers(s, SkipSpace(s, i + 1), {}, TRUE)
    ELSE IF s[i] = "[" THEN ScanItems(s, SkipSpace(s, i + 1), <<>>, TRUE)
    ELSE IF HasWord(s, i, NULL) THEN Parsed(PyNone, i + 4)
    ELSE IF HasWord(s, i, TRUE_WORD) THEN Parsed(TRUE, i + 4)
    ELSE IF HasWord(s, i, FALSE_WORD) THEN Parsed(FALSE, i + 5)
    ELSE IF ScanNumber(s, i).ok THEN ScanNumber(s, i)
    ELSE IF HasWord(s, i, NAN) THEN Parsed([float |-> NAN], i + 3)
    ELSE IF HasWord(s, i, INFINITY)
    THEN Parsed([float |-> INFINITY], i + 8)
    ELSE IF HasWord(s, i, << "-" >> \o INFINITY)
    THEN Parsed([float |-> << "-" >> \o INFINITY], i + 9)
    ELSE NoParse

\* the items of an array after its '[' or after a ','
ScanItems(s, i, acc, first) ==
    IF first /\ At(s, i) = "]" THEN Parsed(acc, i + 1)
    ELSE LET item == ScanValue(s, i)
         IN  IF ~item.ok THEN NoParse
             ELSE ScanItemEnd(s, SkipSpace(s, item.next),
                              Append(acc, item.value))

ScanItemEnd(s, i, acc) ==
    IF At(s, i) = "]" THEN Parsed(acc, i + 1)
    ELSE IF At(s, i) = ","
    THEN ScanItems(s, SkipSpace(s, i + 1), acc, FALSE)
    ELSE NoParse

\* the members of an object after its '{' or after a ','
ScanMembers(s, i, items, first) ==
    IF first /\ At(s, i) = "}" THEN Parsed(Dict(items), i + 1)
    ELSE IF At(s, i) # "\"" THEN NoParse
    ELSE LET key == ScanString(s, i + 1, <<>>)
         IN  IF ~key.ok THEN NoParse
             ELSE ScanMemberValue(s, SkipSpace(s, key.next), items,
                                  key.value)

ScanMemberValue(s, i, items, key) ==
    IF At(s, i) # ":" THEN NoParse
    ELSE LET member == ScanValue(s, SkipSpace(s, i + 1))
         IN  IF ~member.ok THEN NoParse
             ELSE ScanMemberEnd(s, SkipSpace(s, member.next),
                                Put(items, key, member.value))

ScanMemberEnd(s, i, items) ==
    IF At(s, i) = "}" THEN Parsed(Dict(items), i + 1)
    ELSE IF At(s, i) = ","
    THEN ScanMembers(s, SkipSpace(s, i + 1), items, FALSE)
    ELSE NoParse

\* the one value of a text, white space before it left out
ScanText(content) == ScanValue(content, SkipSpace(content, 1))

\* json.loads raises unless the text is one value with white space around it
JsonLoadsRaises(content) ==
    \/ ~ScanText(content).ok
    \/ SkipSpace(content, ScanText(content).next) <= Len(content)

\* json.loads(content), for a text it accepts
json_loads(content) == ScanText(content).value

\* the key under which a result file carries the transcript
TRANSCRIPT == << "t", "r", "a", "n", "s", "c", "r", "i", "p", "t" >>

\* the text stored in the output location under a name: a JSON object that
\* carries the transcript, or that text cut short before its closing brace
MalformedContent(name) ==
    << "{", "\"" >> \o TRANSCRIPT \o << "\"", ":", " ", "\"" >> \o name
        \o << "\"" >>

WellFormedContent(name) == MalformedContent(name) \o << "}" >>

\* the content the store holds under a name
StoredContent(name, wellformed) ==
    IF wellformed THEN WellFormedContent(name) ELSE MalformedContent(name)

(* ----------------------------- the state ------------------------------- *)

VARIABLES
    pc,                  \* the position of process_batch_job
    inflight,            \* the remote call awaiting its answer, or "none"
    uploaded_files,      \* the argument uploaded_files: the names of the files
    init_http,           \* initialize_job's local response, once received
    start_http,          \* start_job's local response, once received
    status_http,         \* check_job_status's local response, the last received
    job_id,              \* process_batch_job's local job_id
    input_storage_path,  \* process_batch_job's local input_storage_path
    output_storage_path, \* process_batch_job's local output_storage_path
    client_url,          \* the URL the SarvamClient is bound to
    upload_idx,          \* the position of upload_files' loop over files
    current_state,       \* process_batch_job's local current_state
    n_checks,            \* the number of status checks sent
    files,               \* process_batch_job's local files (the listing)
    file_idx,            \* the position of the loop over files
    content,             \* process_batch_job's local content (the last download)
    results,             \* process_batch_job's local results
    returned,            \* what process_batch_job returned: "None", "results",
                         \* or "running" while it has not returned
    reported,            \* the messages process_batch_job and the functions it
                         \* calls wrote to the page, in order
    trace,               \* the remote and client operations started, in order
    waited,              \* the seconds slept so far
    upload_ret,          \* what upload_files returned to process_batch_job
    shown,               \* what main showed for the value process_batch_job
                         \* returned: "results", "no_results", or "" before
    store,               \* the files the storage account holds, each the
                         \* triple of its file system, its path in it and
                         \* its content
    listed,              \* the paths behind the names list_files returned last
    tasks,               \* the call each caller of the client is in
    raised               \* the exception the last call on the client ended
                         \* with, "" when it returned

vars ==
    << pc, inflight, uploaded_files, init_http, start_http, status_http,
       job_id, input_storage_path, output_storage_path, client_url,
       upload_idx, current_state, n_checks, files, file_idx, content, results,
       returned, reported, trace, waited, upload_ret, shown, store, listed,
       tasks, raised >>

\* the storage account and the callers of a client taken alone: the
\* uploads of process_batch_job write to the account, and the answers to
\* its list_files and download_file calls are the environment's, which
\* writes the results
client_side == << store, listed, tasks, raised >>

\* the callers of a client taken alone
Tasks == { "A", "B" }

\* a caller that is in no call
Idle ==
    [op |-> "idle", phase |-> "", names |-> <<>>, idx |-> 0,
     exc |-> "", data |-> <<>>,
     fields |-> [account_url |-> <<>>, file_system_name |-> <<>>,
                 directory_name |-> <<>>, sas_token |-> <<>>]]

\* the value of upload_files before it has returned, and a returned None
NotReturned == [returned |-> FALSE, none |-> TRUE, outcomes |-> <<>>]

ReturnedNone == [returned |-> TRUE, none |-> TRUE, outcomes |-> <<>>]

\* the locals of the three job API wrappers
http == << init_http, start_http, status_http >>

NoResponse == Response(0, FALSE, {})

Event(op, arg) == [op |-> op, arg |-> arg]

Message(kind, arg) == [kind |-> kind, arg |-> arg]

Init ==
    /\ pc = "init"
    /\ inflight = "none"
    /\ uploaded_files \in SeqsUpTo(FileNames, 1, MaxFiles)
    /\ init_http = NoResponse
    /\ start_http = NoResponse
    /\ status_http = NoResponse
    /\ job_id = ""
    /\ input_storage_path = <<>>
    /\ output_storage_path = <<>>
    /\ client_url = <<>>
    /\ upload_idx = 1
    /\ current_state = ""
    /\ n_checks = 0
    /\ files = <<>>
    /\ file_idx = 1
    /\ content = <<>>
    /\ results = <<>>
    /\ returned = "running"
    /\ reported = <<>>
    /\ trace = <<>>
    /\ waited = 0
    /\ upload_ret = NotReturned
    /\ shown = ""
    /\ store = {}
    /\ listed = <<>>
    /\ tasks = [t \in Tasks |-> Idle]
    /\ raised = ""

(* ------------------------ the job API wrappers ------------------------- *)

\* response.json() raises when the text of the response is no JSON
InitializeJobRaises(resp) == resp.status_code = HTTP_ACCEPTED /\ ~resp.is_json

\* initialize_job taking 200 for the accepted status as well
initialize_job_AcceptsOk(resp) ==
    IF resp.status_code \in {HTTP_ACCEPTED, HTTP_OK}
    THEN Dict(resp.items)
    ELSE PyNone

initialize_job(resp) ==
    IF resp.status_code = HTTP_ACCEPTED THEN Dict(resp.items) ELSE PyNone

StartJobRaises(resp) == resp.status_code = HTTP_OK /\ ~resp.is_json

\* start_job returning the body whatever the status code
start_job_IgnoresCode(resp) == Dict(resp.items)

start_job(resp) ==
    IF resp.status_code = HTTP_OK THEN Dict(resp.items) ELSE PyNone

CheckJobStatusRaises(resp) == resp.status_code = HTTP_OK /\ ~resp.is_json

\* check_job_status returning the body whatever the status code
check_job_status_IgnoresCode(resp) == Dict(resp.items)

check_job_status(resp) ==
    IF resp.status_code = HTTP_OK THEN Dict(resp.items) ELSE PyNone

(* -------------------------- process_batch_job -------------------------- *)

\* main showing whatever list it is handed, the empty one too
MainShows_AnyList(value, seq) ==
    IF value = "results" THEN "results" ELSE "no_results"

\* lines 357 and 431-432: main shows the results when the value returned is
\* truthy (a non-empty list), and otherwise reports that none were received
MainShows(value, seq) ==
    IF value = "results" /\ seq # <<>> THEN "results" ELSE "no_results"

\* a run without the except clause: the exception leaves process_batch_job
ExceptHandler_Propagates(said, e) ==
    /\ pc' = "done"
    /\ inflight' = "none"
    /\ returned' = "exception"
    /\ shown' = ""
    /\ reported' = said

\* the except clause of process_batch_job, given what was reported before
\* the exception e was raised: the error is reported with the text of e and
\* None is returned to main
ExceptHandler(said, e) ==
    /\ pc' = "done"
    /\ inflight' = "none"
    /\ returned' = "None"
    /\ shown' = MainShows("None", <<>>)
    /\ reported' = said \o << Message("error_processing", << e >>) >>

\* a return of None from process_batch_job (a bare return, or falling off the
\* end of the function after a break)
ReturnNone(said) ==
    /\ pc' = "done"
    /\ inflight' = "none"
    /\ returned' = "None"
    /\ shown' = MainShows("None", <<>>)
    /\ reported' = said

\* line 135: the call of initialize_job is sent
InitCall ==
    /\ pc = "init"
    /\ inflight = "none"
    /\ inflight' = "init"
    /\ trace' = Append(trace, Event("init", <<>>))
    /\ UNCHANGED << pc, uploaded_files, client_side, upload_ret, http, job_id, input_storage_path,
                    output_storage_path, client_url, upload_idx, current_state,
                    n_checks, files, file_idx, content, results, returned, shown, reported,
                    waited >>

\* what initialize_job reports for a response (line 109)
InitializeJobReport(resp) ==
    IF resp.status_code = HTTP_ACCEPTED
    THEN <<>>
    ELSE << Message("init_failed", <<>>) >>

\* lines 106-110 and 136-144: the answer of the init call, the check of it,
\* the three keys read from it and the construction of the client
InitReturn(resp) ==
    /\ pc = "init"
    /\ inflight = "init"
    /\ init_http' = resp
    /\ LET init_response == initialize_job(resp)
           said == reported \o InitializeJobReport(resp)
       IN  IF InitializeJobRaises(resp)
           THEN /\ ExceptHandler(said, "JSONDecodeError")
                /\ UNCHANGED << job_id, input_storage_path,
                                output_storage_path, client_url >>
           ELSE IF ~Truthy(init_response)
           THEN /\ ReturnNone(said)
                /\ UNCHANGED << job_id, input_storage_path,
                                output_storage_path, client_url >>
           ELSE IF ~HasKey(init_response, "job_id")
           THEN /\ ExceptHandler(said, "KeyError")
                /\ UNCHANGED << job_id, input_storage_path,
                                output_storage_path, client_url >>
           ELSE IF ~HasKey(init_response, "input_storage_path")
           THEN /\ ExceptHandler(said, "KeyError")
                /\ job_id' = Get(init_response, "job_id")
                /\ UNCHANGED << input_storage_path, output_storage_path,
                                client_url >>
           ELSE IF ~HasKey(init_response, "output_storage_path")
           THEN /\ ExceptHandler(said, "KeyError")
                /\ job_id' = Get(init_response, "job_id")
                /\ input_storage_path' =
                       Get(init_response, "input_storage_path")
                /\ UNCHANGED << output_storage_path, client_url >>
           ELSE /\ job_id' = Get(init_response, "job_id")
                /\ input_storage_path' =
                       Get(init_response, "input_storage_path")
                /\ output_storage_path' =
                       Get(init_response, "output_storage_path")
                /\ client_url' = Get(init_response, "input_storage_path")
                /\ pc' = "upload_ctx"
                /\ inflight' = "none"
                /\ reported' = said
                /\ UNCHANGED << returned, shown >>
    /\ UNCHANGED << uploaded_files, client_side, upload_ret, start_http, status_http, upload_idx,
                    current_state, n_checks, files, file_idx, content,
                    results, trace, waited >>

\* lines 49-54: upload_files opens its directory client, which raises when
\* the client cannot be built for the bound location
OpenUploadContext(ok) ==
    /\ pc = "upload_ctx"
    /\ inflight = "none"
    /\ trace' = Append(trace, Event("open_upload", <<>>))
    /\ IF ok
       THEN /\ pc' = "upload"
            /\ upload_idx' = 1
            /\ UNCHANGED << inflight, returned, shown, reported >>
       ELSE /\ ExceptHandler(reported, "ValueError")
            /\ UNCHANGED upload_idx
    /\ UNCHANGED << uploaded_files, client_side, upload_ret, http, job_id, input_storage_path,
                    output_storage_path, client_url, current_state, n_checks,
                    files, file_idx, content, results, waited >>

\* lines 55-56 and 60-71: the upload of the next file is sent
UploadCall ==
    /\ pc = "upload"
    /\ inflight = "none"
    /\ upload_idx <= Len(uploaded_files)
    /\ inflight' = "upload"
    /\ trace' = Append(trace, Event("upload", uploaded_files[upload_idx]))
    /\ UNCHANGED << pc, uploaded_files, client_side, upload_ret, http, job_id, input_storage_path,
                    output_storage_path, client_url, upload_idx, current_state,
                    n_checks, files, file_idx, content, results, returned, shown, reported,
                    waited >>

\* upload_files giving up at the first upload that fails
AfterUpload_AbortOnFailure(ok, idx, n) ==
    IF ~ok THEN "done" ELSE IF idx + 1 <= n THEN "upload" ELSE "upload_exit"

\* upload_files returning after the first file
AfterUpload_SkipsRest(ok, idx, n) == "upload_exit"

\* where upload_files goes after the upload of a file ended (ok or not):
\* lines 55-56, the loop goes on to the next file, and past the last file
\* the block of the directory client is left
AfterUpload(ok, idx, n) == IF idx + 1 <= n THEN "upload" ELSE "upload_exit"

\* lines 72-76: what _upload_file reports for a file
UploadReport(ok, name) ==
    IF ok THEN Message("upload_success", name)
          ELSE Message("upload_failed", name)

\* lines 73 and 76: what _upload_file returned for each file so far, in order
UploadOutcomes(said) ==
    LET ups == SelectSeq(said, LAMBDA m :
                   m.kind \in {"upload_success", "upload_failed"})
    IN  [i \in 1..Len(ups) |-> ups[i].kind = "upload_success"]

\* the value the claimed contract hands back: one outcome per file, in order
upload_files_ReturnsOutcomes(file_list, outcomes) ==
    [returned |-> TRUE, none |-> FALSE, outcomes |-> outcomes]

\* lines 48-56: upload_files drops what _upload_file returns and has no
\* return statement, so the caller receives None whatever the uploads answered
upload_files(file_list, outcomes) == ReturnedNone

\* the four fields of the client, as lines 26-30 and 32-35 derive them
\* from the URL the client was last given
client == _extract_url_components(client_url)

\* line 65: the bytes of an uploaded file, file.getvalue()
getvalue(name) ==
    << "a", "u", "d", "i", "o", " ", "o", "f", " " >> \o name

\* lines 62 and 98: the file client of a name under the directory the
\* directory client was made for
get_file_client(directory, name) ==
    IF directory = <<>> THEN name ELSE directory \o << "/" >> \o name

\* the file a name stands for with the directory client made from the
\* fields of a client
file_location(fields, name) ==
    << fields.file_system_name,
       get_file_client(fields.directory_name, name) >>

\* lines 67-71: the account after upload_data with overwrite=True
upload_data(location, data) ==
    { f \in store : f[1] # location[1] \/ f[2] # location[2] }
        \cup { << location[1], location[2], data >> }

\* lines 67-76: the upload of a file ends: the file is written under the
\* directory of the directory client and the success reported, or the
\* exception of the write is caught by _upload_file and reported
UploadReturn(ok) ==
    /\ pc = "upload"
    /\ inflight = "upload"
    /\ inflight' = "none"
    /\ reported' =
           Append(reported, UploadReport(ok, uploaded_files[upload_idx]))
    /\ upload_idx' = upload_idx + 1
    /\ pc' = AfterUpload(ok, upload_idx, Len(uploaded_files))
    /\ store' =
           IF ok
           THEN upload_data(file_location(client, uploaded_files[upload_idx]),
                            getvalue(uploaded_files[upload_idx]))
           ELSE store
    /\ UNCHANGED << uploaded_files, listed, tasks, raised, upload_ret, http,
                    job_id, input_storage_path, output_storage_path,
                    client_url, current_state, n_checks, files, file_idx,
                    content, results, returned, shown, trace, waited >>

\* lines 49, 56 and 145: past the last file the directory client is left.
\* upload_files then returns and process_batch_job goes on to start the job,
\* or the storage library raises in leaving and the exception reaches the
\* handler of line 191
CloseUploadContext(ok) ==
    /\ pc = "upload_exit"
    /\ inflight = "none"
    /\ IF ok
       THEN /\ pc' = "start"
            /\ upload_ret' =
                   upload_files(uploaded_files, UploadOutcomes(reported))
            /\ UNCHANGED << inflight, returned, shown, reported >>
       ELSE /\ ExceptHandler(reported, "StorageError")
            /\ UNCHANGED upload_ret
    /\ UNCHANGED << uploaded_files, client_side, http, job_id,
                    input_storage_path, output_storage_path, client_url,
                    upload_idx, current_state, n_checks, files, file_idx,
                    content, results, trace, waited >>

\* lines 148-158: the call of start_job is sent
StartCall ==
    /\ pc = "start"
    /\ inflight = "none"
    /\ inflight' = "start"
    /\ trace' = Append(trace, Event("start", <<>>))
    /\ UNCHANGED << pc, uploaded_files, client_side, upload_ret, http, job_id, input_storage_path,
                    output_storage_path, client_url, upload_idx, current_state,
                    n_checks, files, file_idx, content, results, returned, shown, reported,
                    waited >>

\* what start_job reports for a response (line 121)
StartJobReport(resp) ==
    IF resp.status_code = HTTP_OK
    THEN <<>>
    ELSE << Message("start_failed", <<>>) >>

\* lines 118-122 and 159-160: the answer of the start call and the check of it
StartReturn(resp) ==
    /\ pc = "start"
    /\ inflight = "start"
    /\ start_http' = resp
    /\ LET start_response == start_job(resp)
           said == reported \o StartJobReport(resp)
       IN  IF StartJobRaises(resp)
           THEN ExceptHandler(said, "JSONDecodeError")
           ELSE IF ~Truthy(start_response)
           THEN ReturnNone(said)
           ELSE /\ pc' = "poll"
                /\ inflight' = "none"
                /\ reported' = said
                /\ UNCHANGED << returned, shown >>
    /\ UNCHANGED << uploaded_files, client_side, upload_ret, init_http, status_http, job_id,
                    input_storage_path, output_storage_path, client_url,
                    upload_idx, current_state, n_checks, files, file_idx,
                    content, results, trace, waited >>

\* line 165: the call of check_job_status is sent
PollCall ==
    /\ pc = "poll"
    /\ inflight = "none"
    /\ n_checks < MaxPolls
    /\ inflight' = "status"
    /\ n_checks' = n_checks + 1
    /\ trace' = Append(trace, Event("status", <<>>))
    /\ UNCHANGED << pc, uploaded_files, client_side, upload_ret, http, job_id, input_storage_path,
                    output_storage_path, client_url, upload_idx, current_state,
                    files, file_idx, content, results, returned, shown, reported, waited >>

\* the loop retrieving the results on any terminal job state
AfterStatus_FailedRetrieves(state) ==
    IF state \in {"Completed", "Failed"} THEN "list" ELSE "sleep"

\* the loop checking again at once, with no wait
AfterStatus_NoWait(state) ==
    IF state = "Completed" THEN "list"
    ELSE IF state = "Failed" THEN "done"
    ELSE "poll"

\* lines 173, 185 and 189: where the loop goes for a job state
AfterStatus(state) ==
    IF state = "Completed" THEN "list"
    ELSE IF state = "Failed" THEN "done"
    ELSE "sleep"

\* lines 127-130 and 166-187: the answer of a status check and the branch
\* taken on it; on 'Completed' the client is bound to the output location
\* lines 32-35: update_url replaces the four fields of the client by the
\* components of the new URL; the mutant leaves the client as it was bound
update_url_KeepsBinding(bound, url) == bound

update_url(bound, url) == url

PollReturn(resp) ==
    /\ pc = "poll"
    /\ inflight = "status"
    /\ status_http' = resp
    /\ LET status == check_job_status(resp)
       IN  IF CheckJobStatusRaises(resp)
           THEN /\ ExceptHandler(reported, "JSONDecodeError")
                /\ UNCHANGED << current_state, client_url, trace >>
           ELSE IF ~Truthy(status)
           THEN /\ ReturnNone(Append(reported, Message("status_failed", <<>>)))
                /\ UNCHANGED << current_state, client_url, trace >>
           ELSE IF ~HasKey(status, "job_state")
           THEN /\ ExceptHandler(reported, "KeyError")
                /\ UNCHANGED << current_state, client_url, trace >>
           ELSE LET state == Get(status, "job_state")
                    said == Append(reported,
                                   Message("current_status", <<state>>))
                IN  /\ current_state' = state
                    /\ CASE AfterStatus(state) = "list" ->
                              /\ pc' = "list"
                              /\ inflight' = "none"
                              /\ reported' =
                                     Append(said,
                                            Message("job_completed", <<>>))
                              /\ client_url' =
                                     update_url(client_url,
                                                output_storage_path)
                              /\ trace' =
                                     Append(trace, Event("update_url", <<>>))
                              /\ UNCHANGED << returned, shown >>
                         [] AfterStatus(state) = "done" ->
                              /\ ReturnNone(Append(said,
                                                   Message("job_failed", <<>>)))
                              /\ UNCHANGED << client_url, trace >>
                         [] OTHER ->
                              /\ pc' = AfterStatus(state)
                              /\ inflight' = "none"
                              /\ reported' = said
                              /\ UNCHANGED << client_url, trace, returned, shown >>
    /\ UNCHANGED << uploaded_files, client_side, upload_ret, init_http, start_http, job_id,
                    input_storage_path, output_storage_path, upload_idx,
                    n_checks, files, file_idx, content, results, waited >>

\* line 189: the wait between two status checks
\* a loop that gives up after the first check, as a bounded loop would
PollingGoesOn_GivesUp(checks, seconds) == checks < 1

\* line 164: the condition of the polling loop is the constant True; neither
\* the number of checks made nor the time waited ends it
PollingGoesOn(checks, seconds) == TRUE

Sleep ==
    /\ pc = "sleep"
    /\ inflight = "none"
    /\ waited' = waited + POLL_INTERVAL
    /\ trace' = Append(trace, Event("sleep", <<>>))
    /\ IF PollingGoesOn(n_checks, waited')
       THEN /\ pc' = "poll"
            /\ UNCHANGED << inflight, returned, shown, reported >>
       ELSE ReturnNone(reported)
    /\ UNCHANGED << uploaded_files, client_side, upload_ret, http, job_id,
                    input_storage_path, output_storage_path, client_url,
                    upload_idx, current_state, n_checks, files, file_idx, content,
                    results >>

\* requests.post and requests.get raise when no response arrives
RequestRaises ==
    /\ inflight \in {"init", "start", "status"}
    /\ ExceptHandler(reported, "ConnectionError")
    /\ UNCHANGED << uploaded_files, client_side, upload_ret, http, job_id, input_storage_path,
                    output_storage_path, client_url, upload_idx, current_state,
                    n_checks, files, file_idx, content, results, trace, waited >>

\* the test of the name without the dot of the extension
IsResultFile_NoDot(name) == EndsWith(name, <<"j", "s", "o", "n">>)

\* line 181: the test that selects the files to download
IsResultFile(name) == EndsWith(name, JSON_SUFFIX)

\* lines 180-181: the first position from i on whose name is selected, or
\* the position past the end of the listing
NextResultFile(listing, i) ==
    IF \E j \in i..Len(listing) : IsResultFile(listing[j])
    THEN CHOOSE j \in i..Len(listing) :
             /\ IsResultFile(listing[j])
             /\ \A k \in i..(j - 1) : ~IsResultFile(listing[k])
    ELSE Len(listing) + 1

\* line 178: the call of list_files is sent
ListCall ==
    /\ pc = "list"
    /\ inflight = "none"
    /\ inflight' = "list"
    /\ trace' = Append(trace, Event("list", <<>>))
    /\ UNCHANGED << pc, uploaded_files, client_side, upload_ret, http, job_id, input_storage_path,
                    output_storage_path, client_url, upload_idx, current_state,
                    n_checks, files, file_idx, content, results, returned, shown, reported,
                    waited >>

\* lines 179-184: the loop over the listing goes on from position i: to the
\* download of the next selected file, or to the return of the results
ContinueRetrieval(listing, i) ==
    LET j == NextResultFile(listing, i)
    IN  /\ file_idx' = j
        /\ inflight' = "none"
        /\ IF j <= Len(listing)
           THEN /\ pc' = "download"
                /\ UNCHANGED << returned, shown >>
           ELSE /\ pc' = "done"
                /\ returned' = "results"
                /\ shown' = MainShows("results", results')

\* lines 78-89 and 178-181: list_files returns the listing or raises
ListReturn(ok, listing) ==
    /\ pc = "list"
    /\ inflight = "list"
    /\ IF ok
       THEN /\ files' = listing
            /\ results' = <<>>
            /\ ContinueRetrieval(listing, 1)
            /\ UNCHANGED reported
       ELSE /\ ExceptHandler(reported, "StorageError")
            /\ UNCHANGED << files, file_idx, results >>
    /\ UNCHANGED << uploaded_files, client_side, upload_ret, http, job_id, input_storage_path,
                    output_storage_path, client_url, upload_idx, current_state,
                    n_checks, content, trace, waited >>

\* line 182: the call of download_file for the selected file is sent
DownloadCall ==
    /\ pc = "download"
    /\ inflight = "none"
    /\ inflight' = "download"
    /\ trace' = Append(trace, Event("download", files[file_idx]))
    /\ UNCHANGED << pc, uploaded_files, client_side, upload_ret, http, job_id, input_storage_path,
                    output_storage_path, client_url, upload_idx, current_state,
                    n_checks, files, file_idx, content, results, returned, shown, reported,
                    waited >>

\* lines 91-101: download_file raises
DownloadRaises ==
    /\ pc = "download"
    /\ inflight = "download"
    /\ ExceptHandler(reported, "StorageError")
    /\ UNCHANGED << uploaded_files, client_side, upload_ret, http, job_id, input_storage_path,
                    output_storage_path, client_url, upload_idx, current_state,
                    n_checks, files, file_idx, content, results, trace, waited >>

\* lines 182-184: download_file returns the content, which is parsed and
\* appended to the results
DownloadReturn(wellformed) ==
    /\ pc = "download"
    /\ inflight = "download"
    /\ content' = StoredContent(files[file_idx], wellformed)
    /\ IF JsonLoadsRaises(content')
       THEN /\ ExceptHandler(reported, "JSONDecodeError")
            /\ UNCHANGED << file_idx, results >>
       ELSE /\ results' = Append(results, json_loads(content'))
            /\ ContinueRetrieval(files, file_idx + 1)
            /\ UNCHANGED reported
    /\ UNCHANGED << uploaded_files, client_side, upload_ret, http, job_id, input_storage_path,
                    output_storage_path, client_url, upload_idx, current_state,
                    n_checks, files, trace, waited >>

Next ==
    \/ InitCall
    \/ \E resp \in InitResponses : InitReturn(resp)
    \/ \E ok \in BOOLEAN : OpenUploadContext(ok)
    \/ UploadCall
    \/ \E ok \in BOOLEAN : UploadReturn(ok)
    \/ \E ok \in BOOLEAN : CloseUploadContext(ok)
    \/ StartCall
    \/ \E resp \in StartResponses : StartReturn(resp)
    \/ PollCall
    \/ \E resp \in StatusResponses : PollReturn(resp)
    \/ Sleep
    \/ RequestRaises
    \/ ListCall
    \/ \E ok \in BOOLEAN, listing \in SeqsUpTo(ListNames, 0, MaxList) :
           ListReturn(ok, listing)
    \/ DownloadCall
    \/ DownloadRaises
    \/ \E wellformed \in BOOLEAN : DownloadReturn(wellformed)

Spec == Init /\ [][Next]_vars

\* The event loop runs the coroutine on: a wait of line 189 ends and the
\* calls of lines 165, 178 and 182 are started; and list_files and
\* download_file come back, with a value or an exception.
FairSpec ==
    /\ Spec
    /\ WF_vars(Sleep)
    /\ WF_vars(PollCall)
    /\ WF_vars(ListCall)
    /\ WF_vars(DownloadCall)
    /\ WF_vars(\E ok \in BOOLEAN, listing \in SeqsUpTo(ListNames, 0, MaxList) :
                   ListReturn(ok, listing))
    /\ WF_vars(DownloadRaises \/ \E wellformed \in BOOLEAN :
                                    DownloadReturn(wellformed))

\* ---------------------------------------------------------------------
\* SarvamClient on its own: a client is constructed for a URL and rebound,
\* and two callers ask it to upload, list and download against a storage
\* account whose content is the variable store.  A call on the client is a
\* coroutine: it goes on in steps, one for each await that hands control
\* back to the event loop, and between two steps of a call the other caller
\* may run.  The storage library may raise wherever it is called; an
\* exception raised inside an 'async with' block leaves the call only after
\* the storage client of the block has been left.
\* ---------------------------------------------------------------------

\* the number of calls made on the client, the constructor included; the
\* files uploaded are at most MaxFiles
MaxClientCalls == 4

\* https://a.blob.x?sas
CONTAINERLESS_URL ==
    <<"h", "t", "t", "p", "s", ":", "/", "/", "a", ".", "b", "l", "o", "b", ".", "x", "?", "s", "a", "s">>

\* https://a.blob.x/?sas
ROOT_URL ==
    <<"h", "t", "t", "p", "s", ":", "/", "/", "a", ".", "b", "l", "o", "b", ".", "x", "/", "?", "s", "a", "s">>

\* https://a.blob.x/fs//out?sas
GAPPED_URL ==
    <<"h", "t", "t", "p", "s", ":", "/", "/", "a", ".", "b", "l", "o", "b", ".", "x", "/", "f", "s", "/", "/", "o", "u", "t", "?", "s", "a", "s">>

\* https://a.blob.x/fs?sas
CONTAINER_ONLY_URL ==
    <<"h", "t", "t", "p", "s", ":", "/", "/", "a", ".", "b", "l", "o", "b", ".", "x", "/", "f", "s", "?", "s", "a", "s">>

\* https://acct.blob.x/container/a/b?sig=1
EXAMPLE_URL ==
    <<"h", "t", "t", "p", "s", ":", "/", "/", "a", "c", "c", "t", ".", "b", "l", "o", "b", ".", "x", "/", "c", "o", "n", "t", "a", "i", "n", "e", "r", "/", "a", "/", "b", "?", "s", "i", "g", "=", "1">>

\* the URLs a client is constructed for
ClientUrls ==
    { INPUT_URL, OUTPUT_URL, CONTAINERLESS_URL, ROOT_URL, GAPPED_URL,
      CONTAINER_ONLY_URL, EXAMPLE_URL }

\* the URLs a client is rebound to
RebindUrls == { INPUT_URL, OUTPUT_URL, CONTAINERLESS_URL }

\* the files the account may hold at first: out/r/a.json and out/r/s/a.json
\* of the file system fs, each a result file
StoredFiles ==
    { << <<"f", "s">>, p, WellFormedContent(p) >> :
          p \in { <<"o", "u", "t", "/", "r", "/", "a", ".", "j", "s", "o", "n">>,
                   <<"o", "u", "t", "/", "r", "/", "s", "/", "a", ".", "j", "s", "o", "n">> } }

\* the lists of files a caller uploads
UploadLists ==
    { << <<"b", ".", "m", "p", "3">> >>,
      << <<"a", ".", "w", "a", "v">>, <<"b", ".", "m", "p", "3">> >> }

\* the injective enumerations of a finite set
Orders(S) ==
    { f \in [1..Cardinality(S) -> S] :
          \A i, j \in 1..Cardinality(S) : f[i] = f[j] => i = j }

\* line 86: the part of a path after its last separator
basename(path) == LET parts == Split(path, "/") IN parts[Len(parts)]

\* lines 85-88: the names list_files collects from the paths enumerated
RECURSIVE basenames(_)
basenames(paths) ==
    IF paths = <<>> THEN <<>>
    ELSE << basename(Head(paths)) >> \o basenames(Tail(paths))

\* line 85: the paths of the files of a file system below a directory, at
\* any depth
get_paths(file_system, directory) ==
    { f[2] : f \in
        { g \in store :
            /\ g[1] = file_system
            /\ \/ directory = <<>>
               \/ /\ Len(g[2]) > Len(directory) + 1
                  /\ SubSeq(g[2], 1, Len(directory) + 1)
                         = directory \o << "/" >> } }

\* the account holds a file at a location
Holds(location) ==
    \E f \in store : f[1] = location[1] /\ f[2] = location[2]

\* the content of the file the account holds at a location
ContentAt(location) ==
    (CHOOSE f \in store : f[1] = location[1] /\ f[2] = location[2])[3]

\* a caller in a call: the operation, how far it has come, the fields the
\* storage client of the call was made from, the names it works on
InCall(op, phase, fields, names, idx) ==
    [op |-> op, phase |-> phase, names |-> names, idx |-> idx,
     exc |-> "", data |-> <<>>, fields |-> fields]

\* the files a caller has still to report in the upload it is in
Pending(t) == IF tasks[t].op = "upload" THEN Len(tasks[t].names) ELSE 0

\* the files the uploads of the run have reported or have still to report
UploadedFiles == Len(reported) + Pending("A") + Pending("B")

\* the caller that makes the next call: an idle one, A before B
NextCaller(t) ==
    /\ tasks[t].op = "idle"
    /\ t = "B" => tasks["A"].op # "idle"

ClientInit ==
    /\ pc = "new"
    /\ inflight = "none"
    /\ uploaded_files = <<>>
    /\ init_http = NoResponse
    /\ start_http = NoResponse
    /\ status_http = NoResponse
    /\ job_id = ""
    /\ input_storage_path = <<>>
    /\ output_storage_path = <<>>
    /\ client_url = <<>>
    /\ upload_idx = 0
    /\ current_state = ""
    /\ n_checks = 0
    /\ files = <<>>
    /\ file_idx = 0
    /\ content = <<>>
    /\ results = <<>>
    /\ returned = "running"
    /\ reported = <<>>
    /\ trace = <<>>
    /\ waited = 0
    /\ upload_ret = NotReturned
    /\ shown = ""
    /\ store \in SUBSET StoredFiles
    /\ listed = <<>>
    /\ tasks = [t \in Tasks |-> Idle]
    /\ raised = ""

\* what no call on the client changes
job_side ==
    << inflight, uploaded_files, http, job_id, input_storage_path,
       output_storage_path, upload_idx, current_state, n_checks, results,
       returned, waited, shown >>

\* lines 26-30: the constructor keeps the components of the URL; neither it
\* nor _extract_url_components has a raise statement
ClientConstruct(url) ==
    /\ pc = "new"
    /\ Len(trace) < MaxClientCalls
    /\ pc' = "client"
    /\ client_url' = update_url(client_url, url)
    /\ trace' = Append(trace, Event("__init__", url))
    /\ UNCHANGED << job_side, files, file_idx, content, reported, store,
                    listed, tasks, raised, upload_ret >>

\* lines 32-35: update_url has no await; it runs whatever the callers are in
ClientUpdateUrl(url) ==
    /\ pc = "client"
    /\ Len(trace) < MaxClientCalls
    /\ client_url' = update_url(client_url, url)
    /\ trace' = Append(trace, Event("update_url", url))
    /\ UNCHANGED << pc, job_side, files, file_idx, content, reported, store,
                    listed, tasks, raised, upload_ret >>

\* lines 49-54: upload_files makes a directory client from the fields the
\* client has at the call, and enters it
UploadFilesCall(t, file_list) ==
    /\ pc = "client"
    /\ NextCaller(t)
    /\ Len(trace) < MaxClientCalls
    /\ UploadedFiles + Len(file_list) <= MaxFiles
    /\ tasks' = [tasks EXCEPT
                     ![t] = InCall("upload", "opening", client, file_list, 0)]
    /\ trace' = Append(trace, Event("upload", file_list))
    /\ UNCHANGED << pc, job_side, client_url, files, file_idx, content,
                    reported, store, listed, raised, upload_ret >>

\* lines 80-84: list_files makes a file system client from the fields the
\* client has at the call, and enters it
ListFilesCall(t) ==
    /\ pc = "client"
    /\ NextCaller(t)
    /\ Len(trace) < MaxClientCalls
    /\ tasks' = [tasks EXCEPT
                     ![t] = InCall("list", "opening", client, <<>>, 0)]
    /\ trace' = Append(trace, Event("list", <<>>))
    /\ UNCHANGED << pc, job_side, client_url, files, file_idx, content,
                    reported, store, listed, raised, upload_ret >>

\* lines 92-97: download_file makes a directory client from the fields the
\* client has at the call, and enters it; the name is one list_files returned
DownloadFileCall(t, i) ==
    /\ pc = "client"
    /\ NextCaller(t)
    /\ Len(trace) < MaxClientCalls
    /\ tasks' = [tasks EXCEPT
                     ![t] = InCall("download", "opening", client,
                                   << files[i] >>, i)]
    /\ trace' = Append(trace, Event("download", files[i]))
    /\ UNCHANGED << pc, job_side, client_url, files, file_idx, content,
                    reported, store, listed, raised, upload_ret >>

\* lines 49, 80 and 92: the storage client of the call is entered.  Back
\* from it, list_files calls get_paths with the directory the client has
\* then (line 85); the directory of the two others was fixed at the call
ContextOpened(t) ==
    /\ tasks[t].phase = "opening"
    /\ tasks' = [tasks EXCEPT
                     ![t].phase = "opened",
                     ![t].fields.directory_name =
                         IF tasks[t].op = "list"
                         THEN client.directory_name ELSE @]
    /\ UNCHANGED << pc, job_side, client_url, trace, files, file_idx,
                    content, reported, store, listed, raised, upload_ret >>

\* lines 49-54, 80-84 and 92-97: the storage library raises when the storage
\* client is made or entered; nothing has been entered, the exception ends
\* the call
OpeningRaises(t) ==
    /\ tasks[t].phase = "opening"
    /\ tasks' = [tasks EXCEPT ![t] = Idle]
    /\ raised' = "StorageError"
    /\ UNCHANGED << pc, job_side, client_url, trace, files, file_idx,
                    content, reported, store, listed, upload_ret >>

\* lines 85, 99 and 100: the storage library raises in the enumeration of
\* list_files or in a read of download_file, which have no handler; the
\* storage client is left before the exception leaves the call
LibraryRaises(t) ==
    /\ tasks[t].op \in {"list", "download"}
    /\ tasks[t].phase \in {"opened", "reading"}
    /\ tasks' = [tasks EXCEPT ![t].phase = "closing",
                              ![t].exc = "StorageError"]
    /\ UNCHANGED << pc, job_side, client_url, trace, files, file_idx,
                    content, reported, store, listed, raised, upload_ret >>

\* lines 49, 80 and 92: the storage library raises when the storage client
\* is left; the call ends with that exception
ExitRaises(t) ==
    /\ tasks[t].phase = "closing"
    /\ tasks' = [tasks EXCEPT ![t] = Idle]
    /\ raised' = "StorageError"
    /\ UNCHANGED << pc, job_side, client_url, trace, files, file_idx,
                    content, reported, store, listed, upload_ret >>

\* lines 62-71: _upload_file writes the next file under the directory of the
\* directory client, or the write raises
UploadWrite(t, ok) ==
    /\ tasks[t].op = "upload"
    /\ tasks[t].phase = "opened"
    /\ store' =
           IF ok
           THEN upload_data(
                    file_location(tasks[t].fields, Head(tasks[t].names)),
                    getvalue(Head(tasks[t].names)))
           ELSE store
    /\ tasks' = [tasks EXCEPT
                     ![t].phase = IF ok THEN "written" ELSE "failed"]
    /\ UNCHANGED << pc, job_side, client_url, trace, files, file_idx,
                    content, reported, listed, raised, upload_ret >>

\* lines 72-76 and 55: back from the write, _upload_file reports it, and the
\* loop goes to the next file
UploadReported(t) ==
    /\ tasks[t].op = "upload"
    /\ tasks[t].phase \in {"written", "failed"}
    /\ reported' =
           Append(reported,
                  UploadReport(tasks[t].phase = "written",
                               Head(tasks[t].names)))
    /\ tasks' = [tasks EXCEPT
                     ![t].names = Tail(tasks[t].names),
                     ![t].phase = IF Tail(tasks[t].names) = <<>>
                                  THEN "closing" ELSE "opened"]
    /\ UNCHANGED << pc, job_side, client_url, trace, files, file_idx,
                    content, store, listed, raised, upload_ret >>

\* lines 49 and 56: the directory client is left and upload_files returns
UploadClosed(t) ==
    /\ tasks[t].op = "upload"
    /\ tasks[t].phase = "closing"
    /\ upload_ret' = upload_files(tasks[t].names, UploadOutcomes(reported))
    /\ tasks' = [tasks EXCEPT ![t] = Idle]
    /\ raised' = ""
    /\ UNCHANGED << pc, job_side, client_url, trace, files, file_idx,
                    content, reported, store, listed >>

\* lines 85-88: the paths get_paths was asked for arrive: those the file
\* system of the file system client holds now below the directory given at
\* line 85, at any depth
ListEnumerate(t, order) ==
    /\ tasks[t].op = "list"
    /\ tasks[t].phase = "opened"
    /\ tasks' = [tasks EXCEPT ![t].names = order, ![t].phase = "closing"]
    /\ UNCHANGED << pc, job_side, client_url, trace, files, file_idx,
                    content, reported, store, listed, raised, upload_ret >>

\* lines 80 and 89: the file system client is left; list_files returns the
\* last segment of each path, or the exception raised inside leaves it
ListClosed(t) ==
    /\ tasks[t].op = "list"
    /\ tasks[t].phase = "closing"
    /\ files' = IF tasks[t].exc = "" THEN basenames(tasks[t].names)
                ELSE files
    /\ listed' = IF tasks[t].exc = "" THEN tasks[t].names ELSE listed
    /\ tasks' = [tasks EXCEPT ![t] = Idle]
    /\ raised' = tasks[t].exc
    /\ UNCHANGED << pc, job_side, client_url, trace, file_idx, content,
                    reported, store, upload_ret >>

\* lines 98-99: download_file() of the file of the name directly under the
\* directory of the directory client is answered: with the file, or with
\* an exception when there is none
DownloadStarted(t) ==
    /\ tasks[t].op = "download"
    /\ tasks[t].phase = "opened"
    /\ tasks' =
           IF Holds(file_location(tasks[t].fields, tasks[t].names[1]))
           THEN [tasks EXCEPT
                     ![t].phase = "reading",
                     ![t].data =
                         ContentAt(file_location(tasks[t].fields,
                                                 tasks[t].names[1]))]
           ELSE [tasks EXCEPT ![t].phase = "closing",
                              ![t].exc = "ResourceNotFound"]
    /\ UNCHANGED << pc, job_side, client_url, trace, files, file_idx,
                    content, reported, store, listed, raised, upload_ret >>

\* line 100: readall() is answered with the content of the file
DownloadRead(t) ==
    /\ tasks[t].op = "download"
    /\ tasks[t].phase = "reading"
    /\ tasks' = [tasks EXCEPT ![t].phase = "closing"]
    /\ UNCHANGED << pc, job_side, client_url, trace, files, file_idx,
                    content, reported, store, listed, raised, upload_ret >>

\* lines 92 and 101: the directory client is left; download_file returns
\* the content read, or the exception raised inside leaves it
DownloadClosed(t) ==
    /\ tasks[t].op = "download"
    /\ tasks[t].phase = "closing"
    /\ content' = IF tasks[t].exc = "" THEN tasks[t].data ELSE content
    /\ file_idx' = IF tasks[t].exc = "" THEN tasks[t].idx ELSE file_idx
    /\ tasks' = [tasks EXCEPT ![t] = Idle]
    /\ raised' = tasks[t].exc
    /\ UNCHANGED << pc, job_side, client_url, trace, files, reported,
                    store, listed, upload_ret >>

ClientNext ==
    \/ \E url \in ClientUrls : ClientConstruct(url)
    \/ \E url \in RebindUrls : ClientUpdateUrl(url)
    \/ \E t \in Tasks, file_list \in UploadLists :
           UploadFilesCall(t, file_list)
    \/ \E t \in Tasks : ListFilesCall(t)
    \/ \E t \in Tasks, i \in 1..Len(files) : DownloadFileCall(t, i)
    \/ \E t \in Tasks : ContextOpened(t)
    \/ \E t \in Tasks : OpeningRaises(t)
    \/ \E t \in Tasks : LibraryRaises(t)
    \/ \E t \in Tasks : ExitRaises(t)
    \/ \E t \in Tasks, ok \in BOOLEAN : UploadWrite(t, ok)
    \/ \E t \in Tasks : UploadReported(t)
    \/ \E t \in Tasks : UploadClosed(t)
    \/ \E t \in Tasks :
           \E order \in Orders(get_paths(tasks[t].fields.file_system_name,
                                         tasks[t].fields.directory_name)) :
               ListEnumerate(t, order)
    \/ \E t \in Tasks : ListClosed(t)
    \/ \E t \in Tasks : DownloadStarted(t)
    \/ \E t \in Tasks : DownloadRead(t)
    \/ \E t \in Tasks : DownloadClosed(t)

ClientSpec == ClientInit /\ [][ClientNext]_vars

(* ------------------------ the phases of a run -------------------------- *)

\* the phase a run is in, by the position of process_batch_job and the last
\* job state it read
Phase ==
    CASE pc = "init" -> "Init"
      [] pc \in {"upload_ctx", "upload", "upload_exit"} -> "Uploading"
      [] pc = "start" -> "Starting"
      [] pc \in {"poll", "sleep"} -> "Polling"
      [] pc \in {"list", "download"} -> "Completed"
      [] OTHER -> IF current_state = "Completed" THEN "Completed"
                  ELSE IF current_state = "Failed" THEN "Failed"
                  ELSE "Aborted"

(* --------------------- what a run did, from its trace ------------------ *)

\* the operations of the given kinds, in the order they were started
Started(ops) == SelectSeq(trace, LAMBDA e : e.op \in ops)

Count(op) == Len(Started({op}))

RetrievalOps == {"update_url", "list", "download"}

JobApiOps == {"init", "start", "status"}

\* the messages of the given kinds, in the order they were written
Said(kinds) == SelectSeq(reported, LAMBDA m : m.kind \in kinds)

\* the job states read so far, in order
StatesSeen == [i \in DOMAIN Said({"current_status"}) |->
                   Said({"current_status"})[i].arg[1]]

LastOp == IF trace = <<>> THEN "" ELSE trace[Len(trace)].op

LastSaid == IF reported = <<>> THEN "" ELSE reported[Len(reported)].kind

(* ------------------------------ C1 ------------------------------------- *)

\* C1: the client is rebound and list_files and download_file are called only
\* after a status check has answered 'Completed'; a run whose last job state
\* is 'Failed' has returned None with the answered status check as its last
\* operation: no rebind, no list, no download and no further status check.
C1_RetrievalOnlyAfterCompleted ==
    /\ Started(RetrievalOps) # <<>> =>
           /\ current_state = "Completed"
           /\ StatesSeen # <<>>
           /\ StatesSeen[Len(StatesSeen)] = "Completed"
           /\ \A i \in DOMAIN trace :
                  trace[i].op \in RetrievalOps =>
                      \A j \in DOMAIN trace : trace[j].op = "status" => j < i
    /\ client_url = output_storage_path /\ client_url # <<>> =>
           current_state = "Completed"
    /\ current_state = "Failed" =>
           /\ pc = "done"
           /\ inflight = "none"
           /\ returned = "None"
           /\ Started(RetrievalOps) = <<>>
           /\ LastOp = "status"
           /\ Count("status") = Len(StatesSeen)
           /\ client_url = input_storage_path

\* a run that read Running and then Failed has ended
C1_Witness ==
    /\ StatesSeen = <<"Running", "Failed">>
    /\ pc = "done"

(* ------------------------------ C2 ------------------------------------- *)

\* the status checks and the waits of the trace alternate, from a status check
\* to a status check
Alternates(ops) ==
    \A i \in DOMAIN ops :
        ops[i].op = IF i % 2 = 1 THEN "status" ELSE "sleep"

\* C2: once a status check has answered 'Completed' after k other job states,
\* the run has made exactly k+1 status checks and exactly k waits of the
\* polling interval, a wait between each two consecutive checks, every check
\* was answered before the next was sent, and what follows the last check is
\* the retrieval, with no wait.
C2_PollingWaits ==
    current_state = "Completed" =>
        LET k == Len(StatesSeen) - 1
            polling == Started({"status", "sleep"})
            last == CHOOSE i \in DOMAIN trace :
                        /\ trace[i].op = "status"
                        /\ \A j \in DOMAIN trace : trace[j].op = "status" => j <= i
        IN  /\ \A i \in 1..k : StatesSeen[i] \notin {"Completed", "Failed"}
            /\ Count("status") = k + 1
            /\ n_checks = k + 1
            /\ Count("sleep") = k
            /\ waited = k * POLL_INTERVAL
            /\ Len(polling) = 2 * k + 1
            /\ Alternates(polling)
            /\ inflight # "status"
            /\ trace[last + 1].op = "update_url"
            /\ \A i \in DOMAIN trace : i > last => trace[i].op \in RetrievalOps

\* Running, Running, Completed: two waits, and the retrieval is next
C2_Witness ==
    /\ StatesSeen = <<"Running", "Running", "Completed">>
    /\ Count("sleep") = 2
    /\ pc = "list"

(* ------------------------------ C3 ------------------------------------- *)

\* C3: when a status check is answered with an HTTP status other than 200,
\* the run has returned None, that status check is its last operation (no
\* further check, no wait, no rebind, no list, no download), and the failure
\* to get the status is the last thing reported.
C3_StatusAbsenceAborts ==
    (status_http # NoResponse /\ status_http.status_code # HTTP_OK) =>
        /\ pc = "done"
        /\ inflight = "none"
        /\ returned = "None"
        /\ results = <<>>
        /\ LastOp = "status"
        /\ Count("status") = Len(StatesSeen) + 1
        /\ Count("sleep") = Len(StatesSeen)
        /\ Started(RetrievalOps) = <<>>
        /\ LastSaid = "status_failed"

\* the second status check was answered 404
C3_Witness ==
    /\ status_http.status_code = 404
    /\ Count("status") = 2
    /\ pc = "done"

(* ------------------------------ C4 ------------------------------------- *)

UploadReports == Said({"upload_success", "upload_failed"})

\* the uploads of the files, whatever their outcomes: they are attempted in
\* the order of the files, and an outcome is reported for every upload that
\* ended, whatever the outcomes of the earlier files
UploadsIndependent ==
    /\ Len(Started({"upload"})) <= Len(uploaded_files)
    /\ \A i \in DOMAIN Started({"upload"}) :
           Started({"upload"})[i].arg = uploaded_files[i]
    /\ Len(UploadReports) =
           Len(Started({"upload"})) - (IF inflight = "upload" THEN 1 ELSE 0)
    /\ \A i \in DOMAIN UploadReports :
           UploadReports[i].arg = uploaded_files[i]

\* an upload has ended and upload_files is left, by a return or an exception
UploadsOver ==
    /\ UploadReports # <<>>
    /\ pc \notin {"upload", "upload_exit"}

\* every file was attempted and reported
AllReported ==
    /\ Len(Started({"upload"})) = Len(uploaded_files)
    /\ Len(UploadReports) = Len(uploaded_files)

\* the run is at the start of the job: the call of start_job is next or was
\* made
AtStart ==
    \/ pc = "start" /\ Count("start") <= 1
    \/ Count("start") = 1

\* leaving the directory client raised after the uploads: the run ended
\* there with the error reported and None returned, and start_job not called
ExitRaised ==
    /\ pc = "done"
    /\ returned = "None"
    /\ LastOp = "upload"
    /\ LastSaid = "error_processing"
    /\ Count("start") = 0

\* C4 as stated: the uploads are independent, and once an upload has ended
\* and upload_files is left, every file was attempted and reported and the
\* run is at the start of the job, whatever the outcomes of the uploads.
C4_UploadFailuresDoNotBlock ==
    /\ UploadsIndependent
    /\ UploadsOver => AllReported /\ AtStart

\* C4, amended: the uploads are independent, and once an upload has ended
\* and upload_files is left, every file was attempted and reported, and the
\* run is at the start of the job whatever the outcomes of the uploads,
\* unless leaving the directory client raised: then the run has ended with
\* the error reported, None returned and start_job not called.
C4_UploadOutcomesDoNotBlock ==
    /\ UploadsIndependent
    /\ UploadsOver =>
           /\ AllReported
           /\ AtStart \/ ExitRaised

\* the first of two uploads failed, the second succeeded, and start_job was
\* called
C4_Witness ==
    /\ Len(UploadReports) = 2
    /\ UploadReports[1].kind = "upload_failed"
    /\ UploadReports[2].kind = "upload_success"
    /\ Count("start") = 1

(* ------------------------------ C5 ------------------------------------- *)

\* C5: when the init call is answered with an HTTP status other than 202, the
\* run has returned None with the failure reported, and the init call is the
\* only operation of the run: no retry, no upload, no start, no status check,
\* no retrieval.
C5_InitFailureAborts ==
    (init_http # NoResponse /\ init_http.status_code # HTTP_ACCEPTED) =>
        /\ pc = "done"
        /\ Phase = "Aborted"
        /\ inflight = "none"
        /\ returned = "None"
        /\ trace = << Event("init", <<>>) >>
        /\ reported = << Message("init_failed", <<>>) >>
        /\ client_url = <<>>

\* the init call was answered 200, which is not the accepted status
C5_Witness ==
    /\ init_http.status_code = HTTP_OK
    /\ init_http.items = FullInitBody
    /\ pc = "done"

(* ------------------------------ C6 ------------------------------------- *)

\* C6: start_job is called at most once in a run; when it is answered with
\* an HTTP status other than 200, the run has returned None with the failure
\* reported, and the start call is its last operation: no status check, no
\* wait, no retrieval.
C6_StartFailureAborts ==
    /\ Count("start") <= 1
    /\ (start_http # NoResponse /\ start_http.status_code # HTTP_OK) =>
           /\ pc = "done"
           /\ Phase = "Aborted"
           /\ inflight = "none"
           /\ returned = "None"
           /\ LastOp = "start"
           /\ Count("status") = 0
           /\ n_checks = 0
           /\ Count("sleep") = 0
           /\ Started(RetrievalOps) = <<>>
           /\ LastSaid = "start_failed"

\* the start call was answered 202 with a body
C6_Witness ==
    /\ start_http.status_code = HTTP_ACCEPTED
    /\ start_http.items # {}
    /\ pc = "done"

(* ------------------------------ C7 ------------------------------------- *)

\* C7: the HTTP status code alone decides the success of start and status,
\* whatever JSON body comes with it: once start is answered 200 the run is in
\* the polling loop or has made a status check, and a status check answered
\* 200 is never reported as a failure to get the status.
C7_HttpStatusDecides ==
    /\ (start_http.status_code = HTTP_OK /\ start_http.is_json) =>
           (pc = "poll" \/ n_checks >= 1)
    /\ (status_http.status_code = HTTP_OK /\ status_http.is_json) =>
           Said({"status_failed"}) = <<>>

(* ------------------------------ C8 ------------------------------------- *)

\* the listed names that end in '.json', in listing order
JsonNames == SelectSeq(files, LAMBDA n : EndsWith(n, JSON_SUFFIX))

\* the names download_file was called with, in order
Downloaded == [i \in DOMAIN Started({"download"}) |->
                   Started({"download"})[i].arg]

\* the parsed content of the file stored under a name
ParsedFrom(name) == Dict({ << TRANSCRIPT, name >> })

\* a downloaded file was no JSON document
ParseFailed == content # <<>> /\ JsonLoadsRaises(content)

\* list_files has returned a listing
ListReturned == files # <<>> \/ returned = "results"

\* C8 as stated, on the runs in which every downloaded content parses: for
\* every listing returned, the run calls download_file exactly once for each
\* listed name ending in '.json', in listing order, and the result sequence
\* it returns holds the parsed contents of exactly those files in that order.
C8_EveryJsonDownloaded ==
    (pc = "done" /\ ListReturned /\ ~ParseFailed) =>
        /\ Downloaded = JsonNames
        /\ returned = "results" =>
               results = [i \in DOMAIN JsonNames |-> ParsedFrom(JsonNames[i])]

\* C8, amended: the names downloaded are, in listing order, the first of the
\* listed names ending in '.json' (one call per listed entry, no other name),
\* the results collected are the parsed contents of downloaded files in that
\* order, and when the run returns a result sequence every listed name ending
\* in '.json' was downloaded once and the sequence holds one parsed result
\* for each, in listing order.
C8_DownloadsFollowListing ==
    /\ Len(Downloaded) <= Len(JsonNames)
    /\ \A i \in DOMAIN Downloaded : Downloaded[i] = JsonNames[i]
    /\ Len(results) <= Len(Downloaded)
    /\ \A i \in DOMAIN results : results[i] = ParsedFrom(Downloaded[i])
    /\ returned = "results" =>
           /\ Downloaded = JsonNames
           /\ results = [i \in DOMAIN JsonNames |-> ParsedFrom(JsonNames[i])]

\* a listing of a name ending in '.json' after one that does not was
\* retrieved: one download, one result
C8_Witness ==
    /\ returned = "results"
    /\ Len(files) = 2
    /\ ~EndsWith(files[1], JSON_SUFFIX)
    /\ Len(results) = 1
    /\ Downloaded = << files[2] >>

(* ------------------------------ C9 ------------------------------------- *)

\* C9: when the listing holds several names ending in '.json' and one of
\* them is malformed, the run ends returning the parsed results of all the
\* others.
C9_ParseFailureSkipped ==
    (pc = "done" /\ Len(JsonNames) >= 2 /\ ParseFailed) =>
        /\ returned = "results"
        /\ Len(results) = Len(JsonNames) - 1

(* ------------------------------ C10 ------------------------------------ *)

\* the phase an operation belongs to
Rank(op) ==
    CASE op = "init" -> 1
      [] op \in {"open_upload", "upload"} -> 2
      [] op = "start" -> 3
      [] op \in {"status", "sleep"} -> 4
      [] OTHER -> 5

PhaseEdges ==
    { <<"Init", "Uploading">>, <<"Init", "Aborted">>,
      <<"Uploading", "Starting">>, <<"Uploading", "Aborted">>,
      <<"Starting", "Polling">>, <<"Starting", "Aborted">>,
      <<"Polling", "Completed">>, <<"Polling", "Failed">>,
      <<"Polling", "Aborted">> }

C10_Order ==
    /\ trace # <<>> => trace[1].op = "init"
    /\ \A i, j \in DOMAIN trace :
           i < j => Rank(trace[i].op) <= Rank(trace[j].op)
    /\ Count("init") <= 1
    /\ Count("start") <= 1
    /\ Count("start") = 1 =>
           [i \in DOMAIN Started({"upload"}) |-> Started({"upload"})[i].arg]
               = uploaded_files
    /\ Count("status") >= 1 => Count("start") = 1
    /\ Started(RetrievalOps) # <<>> => Count("status") >= 1
    /\ Phase = "Init" => Started({"upload", "start", "status"}) = <<>>
    /\ Phase = "Uploading" => Count("init") = 1 /\ Count("start") = 0
    /\ Phase = "Starting" => Count("init") = 1 /\ Count("status") = 0
    /\ Phase = "Polling" => Count("start") = 1 /\ Started(RetrievalOps) = <<>>
    /\ Phase \in {"Completed", "Failed"} => Count("status") >= 1

C10_Step ==
    /\ Phase' # Phase => <<Phase, Phase'>> \in PhaseEdges
    /\ Phase \in {"Completed", "Failed", "Aborted"} =>
           Started(JobApiOps)' = Started(JobApiOps)

\* C10: the operations of a run come in the order init, uploads, start,
\* status checks and waits, retrieval, with one init and one start, the start
\* after an upload of every file and the status checks after the start; the
\* phase moves only along Init -> Uploading -> Starting -> Polling ->
\* {Completed, Failed} or to Aborted, and in Completed, Failed and Aborted
\* no job API call is made.
C10_PhaseOrder == [](C10_Order) /\ [][C10_Step]_vars

\* a run went through every phase: two uploads, a wait, a download, results
C10_Witness ==
    /\ returned = "results"
    /\ Count("upload") = 2
    /\ Count("sleep") >= 1
    /\ Count("download") >= 1

(* ------------------------------ C12 ------------------------------------ *)

\* the run ended without a status check: init or start failed
NeverStarted == pc = "done" /\ Count("status") = 0

\* the run ended on the job state Failed
JobFailed == pc = "done" /\ current_state = "Failed"

\* the run saw the job Completed and ended without results
Unretrieved ==
    pc = "done" /\ current_state = "Completed" /\ returned # "results"

\* lines 137 and 160: what a run returns whose init or start failed
NeverStartedOutcome == "None"

\* lines 185-187: what a run returns whose job reported Failed
JobFailedOutcome == "None"

\* C12: the value process_batch_job returns tells the failed phase: a run
\* whose job Failed, or Completed without retrievable results, does not
\* return what a run returns whose job never started, and a run that could
\* not retrieve results does not return what a run returns whose job Failed.
C12_OutcomeTellsPhase ==
    /\ (JobFailed \/ Unretrieved) => returned # NeverStartedOutcome
    /\ Unretrieved => returned # JobFailedOutcome

(* ------------------------------ C13 ------------------------------------ *)

\* the run is in the polling loop of lines 164-189
InLoop == pc \in {"poll", "sleep"}

\* the polling loop is left only by the step that takes a status answer,
\* when the answer is Completed or Failed or the status could not be fetched
C13_Step ==
    (InLoop /\ ~InLoop') =>
        /\ inflight = "status"
        /\ \/ /\ current_state' \in {"Completed", "Failed"}
              /\ LastSaid' \in {"job_completed", "job_failed"}
           \/ LastSaid' \in {"status_failed", "error_processing"}

\* from anywhere in the loop with no call in flight, short of MaxPolls
\* checks, a further status check is started: the n-th check is followed
\* by the next as long as the answers are not terminal
C13_NextCheck ==
    (InLoop /\ inflight = "none" /\ n_checks < MaxPolls)
        ~> (inflight = "status")

\* a terminal answer ends the run
C13_Terminates ==
    (current_state \in {"Completed", "Failed"}) ~> (pc = "done")

\* C13: the polling loop has no timeout: it is left only when a status
\* check answers Completed or Failed or cannot be fetched; while the answers
\* are not terminal every status check is followed by another; and once the
\* answer is terminal, list_files and download_file returning, the run ends.
C13_PollingUnbounded ==
    /\ [][C13_Step]_vars
    /\ C13_NextCheck
    /\ C13_Terminates

\* the job Completed at the last of MaxPolls checks, a wait before each
\* check but the first
C13_Witness ==
    /\ pc = "done"
    /\ n_checks = MaxPolls
    /\ Count("sleep") = MaxPolls - 1
    /\ waited = (MaxPolls - 1) * POLL_INTERVAL
    /\ current_state = "Completed"

(* ------------------------------ C14 ------------------------------------ *)

StorageOps == {"upload", "list", "download"}

\* the positions in the trace at which an operation was started
Positions(ops) == { i \in DOMAIN trace : trace[i].op \in ops }

C14_Binding ==
    /\ inflight = "upload" =>
           /\ client = _extract_url_components(input_storage_path)
           /\ client.directory_name = << "i", "n" >>
    /\ inflight \in {"list", "download"} =>
           /\ client = _extract_url_components(output_storage_path)
           /\ client.directory_name = << "o", "u", "t", "/", "r" >>
    /\ Count("update_url") = IF current_state = "Completed" THEN 1 ELSE 0
    /\ Count("update_url") = 1 =>
           /\ Count("upload") = Len(uploaded_files)
           /\ \A i \in Positions({"update_url"}) :
                  /\ \A j \in Positions({"upload"}) : j < i
                  /\ \A j \in Positions({"list", "download"}) : i < j

C14_Rebind ==
    client_url' # client_url =>
        /\ inflight \notin StorageOps
        /\ inflight' \notin StorageOps

\* C14: the client has the components of the input location while an upload
\* is in flight and those of the output location while a list or a download
\* is; update_url is called once in a run whose job Completed and never in
\* another, after an upload of every file and before list_files; and the
\* binding never changes in a step that starts, ends or interrupts an upload,
\* a list or a download.
C14_ClientBinding == [](C14_Binding) /\ [][C14_Rebind]_vars

\* a download is in flight on the rebound client, after two uploads
C14_Witness ==
    /\ inflight = "download"
    /\ Count("upload") = 2
    /\ client_url = OUTPUT_URL

(* ------------------------------ C15 ------------------------------------ *)

\* C15: once upload_files has returned, its caller holds a sequence with one
\* outcome per input file, in input order, each telling whether the upload
\* of that file succeeded.
C15_UploadReturnsOutcomes ==
    upload_ret.returned =>
        /\ ~upload_ret.none
        /\ Len(upload_ret.outcomes) = Len(uploaded_files)
        /\ \A i \in DOMAIN uploaded_files :
               upload_ret.outcomes[i]
                   = (UploadReports[i].kind = "upload_success")

(* ------------------------------ C11 ------------------------------------ *)

\* the path of a URL names a container: it has a non-empty first segment
HasContainer(url) == Strip(urlparse(url).path, "/") # <<>>

\* C11: giving the client a URL with no container segment, at construction
\* or at a rebind, fails with MalformedLocationError, and it is the last
\* thing done with that client: no upload, list or download follows it.
C11_ContainerlessRejected ==
    \A i \in 1..Len(trace) :
        ( /\ trace[i].op \in {"__init__", "update_url"}
          /\ ~HasContainer(trace[i].arg) )
            => /\ raised = "MalformedLocationError"
               /\ i = Len(trace)

(* ------------------------------ C16 ------------------------------------ *)

\* the text of a URL after its first '?'
RawQuery(url) == SplitAt(url, "?").after

\* C16: for every URL a client was constructed with or rebound to, the
\* directory has no leading and no trailing '/', the token is the raw query
\* string, and for https://acct.blob.x/container/a/b?sig=1 the directory is
\* a/b and the container is container.
C16_DirectoryAndToken ==
    pc = "client" =>
        /\ client.directory_name # <<>> =>
               /\ Head(client.directory_name) # "/"
               /\ client.directory_name[Len(client.directory_name)] # "/"
        /\ client.sas_token = RawQuery(client_url)
        /\ client_url = EXAMPLE_URL =>
               /\ client.directory_name = << "a", "/", "b" >>
               /\ client.file_system_name =
                      << "c", "o", "n", "t", "a", "i", "n", "e", "r" >>

(* ------------------------------ C17 ------------------------------------ *)

\* a download has ended, of a name the one list_files of the run returned,
\* the client never rebound and nothing uploaded, and the storage library
\* reachable throughout
ListedThenDownloaded ==
    /\ LastOp = "download"
    /\ Count("list") = 1
    /\ Count("update_url") = 0
    /\ Count("upload") = 0
    /\ \A t \in Tasks : tasks[t].op = "idle"
    /\ raised # "StorageError"

\* C17: a download of a name that list_files has returned, on the same
\* binding and the same store, does not raise and returns the content of
\* the stored file the name was listed for.
C17_ListedNamesDownloadable ==
    ListedThenDownloaded =>
        /\ raised = ""
        /\ content = ContentAt(<< client.file_system_name,
                                   listed[file_idx] >>)

(* ------------------------------ C18 ------------------------------------ *)

\* the init answer was accepted and its body lacks one of the three keys
InitKeyMissing ==
    /\ ~InitializeJobRaises(init_http)
    /\ Truthy(initialize_job(init_http))
    /\ \E k \in {"job_id", "input_storage_path", "output_storage_path"} :
           ~HasKey(initialize_job(init_http), k)

\* the last status answer was read and its body has no job_state
StatusKeyMissing ==
    /\ ~CheckJobStatusRaises(status_http)
    /\ Truthy(check_job_status(status_http))
    /\ ~HasKey(check_job_status(status_http), "job_state")

\* an answer with a success code had a body that is no JSON document
BodyUnreadable ==
    \/ InitializeJobRaises(init_http)
    \/ StartJobRaises(start_http)
    \/ CheckJobStatusRaises(status_http)

\* the run ended in the construction of the upload context, in leaving it,
\* in list_files or in a download without returning results
CallRaised ==
    /\ pc = "done"
    /\ LastOp \in {"open_upload", "upload", "list", "download"}
    /\ returned # "results"

C18_Aborted ==
    /\ returned \in {"running", "None", "results"}
    /\ ( \/ InitKeyMissing
         \/ StatusKeyMissing
         \/ BodyUnreadable
         \/ ParseFailed
         \/ CallRaised )
           => /\ pc = "done"
              /\ inflight = "none"
              /\ returned = "None"
              /\ LastSaid = "error_processing"
    /\ LastSaid = "error_processing" => pc = "done" /\ returned = "None"

C18_Step == pc = "done" => trace' = trace

\* C18: no exception leaves process_batch_job: when an init body lacks a key,
\* the upload context cannot be made or left, a status body has no
\* job_state, a body is no JSON, list_files or download_file raises or a
\* downloaded file does not parse, the run ends with the error reported and
\* None returned, and no job API or storage call is started after it.
C18_NoExceptionEscapes == [](C18_Aborted) /\ [][C18_Step]_vars

\* list_files raised after the job Completed
C18_Witness ==
    /\ pc = "done"
    /\ LastOp = "list"
    /\ LastSaid = "error_processing"
    /\ returned = "None"

(* ------------------------------ C19 ------------------------------------ *)

\* C19: process_batch_job returns a result sequence exactly when the job was
\* seen Completed and list_files and every download and parse of a .json
\* file succeeded, and None in every other run; the sequence has one result
\* per listed .json file, so it is empty when there is none, and main then
\* reports that no results were received, as it does for None.
C19_ResultsOrNone ==
    /\ pc # "done" => returned = "running" /\ shown = ""
    /\ pc = "done" =>
           /\ returned \in {"results", "None"}
           /\ returned = "results" <=>
                  /\ current_state = "Completed"
                  /\ Count("list") = 1
                  /\ LastSaid # "error_processing"
           /\ returned = "results" =>
                  /\ Downloaded = JsonNames
                  /\ Len(results) = Len(JsonNames)
                  /\ ~ParseFailed
           /\ shown = IF returned = "results" /\ results # <<>>
                      THEN "results" ELSE "no_results"

\* the job Completed with no .json file listed: an empty sequence is
\* returned and main reports that no results were received
C19_Witness ==
    /\ pc = "done"
    /\ returned = "results"
    /\ current_state = "Completed"
    /\ results = <<>>
    /\ shown = "no_results"

====
